---- MODULE Spec2Model ----
(***************************************************************************)
(* LLMP-backed event manager of LibAFL (libafl/src/events/llmp.rs).        *)
(* One broker manager and several client managers exchange fuzzing events  *)
(* over the LLMP shared-memory transport.                                  *)
(***************************************************************************)
EXTENDS Integers, Sequences, FiniteSets, TLC

(***************************************************************************)
(* Bounds of the model.                                                    *)
(***************************************************************************)
\* total number of messages published on the bus in one behaviour
MaxSend == 2

(***************************************************************************)
(* Message tags (llmp.rs:41-50).                                           *)
(***************************************************************************)
\* 0x2C11E471
_LLMP_TAG_EVENT_TO_CLIENT == 739370097
\* 0x2B80438
_LLMP_TAG_EVENT_TO_BROKER == 45614136
\* 0x2B0741
LLMP_TAG_EVENT_TO_BOTH == 2819905
\* 0x8357A87
_LLMP_TAG_RESTART == 137722503
\* 0x57A7EE71
_LLMP_TAG_NO_RESTART == 1470623345
\* a tag outside the reserved namespace
UnknownTag == LLMP_TAG_EVENT_TO_BOTH + 1

Tags == { _LLMP_TAG_EVENT_TO_CLIENT, _LLMP_TAG_EVENT_TO_BROKER, LLMP_TAG_EVENT_TO_BOTH,
          _LLMP_TAG_RESTART, _LLMP_TAG_NO_RESTART, UnknownTag }

\* ExitKind::Ok (executors/mod.rs:13)
ExitKindOk == 1

\* the processes: one broker and the clients attached to it, by LLMP id
Brokers == {0}
Clients == {1, 2}
Mgrs == Brokers \cup Clients
BrokerId == CHOOSE b \in Brokers : TRUE

\* the fitness values is_interesting returns in the model
FitnessValues == {0, 1}

(***************************************************************************)
(* Events and their wire format.                                           *)
(***************************************************************************)
\* a decodable observers_buf carrying one observer value
GoodObservers == <<1>>
\* an observers_buf the local observer shape cannot decode
BadObservers == <<>>

NewTestcase(cs, ob, t, ex) ==
    [kind |-> "NewTestcase", input |-> 1, client_config |-> 1, corpus_size |-> cs,
     observers_buf |-> ob, time |-> t, executions |-> ex]
UpdateStats(t, ex) == [kind |-> "UpdateStats", time |-> t, executions |-> ex]
Objective(os) == [kind |-> "Objective", objective_size |-> os]
Log(sl, m) == [kind |-> "Log", severity_level |-> sl, message |-> m]

\* the events a fuzzer fires in the model; the fields of one event all differ
Events == { NewTestcase(2, GoodObservers, 3, 4),
            NewTestcase(1, BadObservers, 2, 3),
            UpdateStats(5, 6),
            Objective(7),
            Log(1, 8) }

NoEvent == [kind |-> "None"]

\* postcard::to_allocvec(&event): variant index, then the fields in order;
\* a byte vector is its length followed by its bytes
Encode(e) ==
    CASE e.kind = "NewTestcase" ->
            <<0, e.input, e.client_config, e.corpus_size, Len(e.observers_buf)>>
                \o e.observers_buf \o <<e.time, e.executions>>
      [] e.kind = "UpdateStats" -> <<1, e.time, e.executions>>
      [] e.kind = "Objective" -> <<2, e.objective_size>>
      [] e.kind = "Log" -> <<3, e.severity_level, e.message>>

\* postcard::from_bytes::<Event<I>>(msg)
Decode(buf) ==
    IF Len(buf) = 0 THEN [ok |-> FALSE, event |-> NoEvent]
    ELSE CASE buf[1] = 0 ->
                IF Len(buf) >= 5 /\ buf[5] >= 0 /\ Len(buf) = 7 + buf[5]
                THEN [ok |-> TRUE,
                      event |-> [kind |-> "NewTestcase", input |-> buf[2],
                                 client_config |-> buf[3], corpus_size |-> buf[4],
                                 observers_buf |-> SubSeq(buf, 6, 5 + buf[5]),
                                 time |-> buf[6 + buf[5]],
                                 executions |-> buf[7 + buf[5]]]]
                ELSE [ok |-> FALSE, event |-> NoEvent]
           [] buf[1] = 1 ->
                IF Len(buf) = 3
                THEN [ok |-> TRUE, event |-> UpdateStats(buf[2], buf[3])]
                ELSE [ok |-> FALSE, event |-> NoEvent]
           [] buf[1] = 2 ->
                IF Len(buf) = 2
                THEN [ok |-> TRUE, event |-> Objective(buf[2])]
                ELSE [ok |-> FALSE, event |-> NoEvent]
           [] buf[1] = 3 ->
                IF Len(buf) = 3
                THEN [ok |-> TRUE, event |-> Log(buf[2], buf[3])]
                ELSE [ok |-> FALSE, event |-> NoEvent]
           [] OTHER -> [ok |-> FALSE, event |-> NoEvent]

\* postcard::from_bytes::<OT>(&observers_buf)
DecodeObservers(buf) ==
    IF Len(buf) = 1 THEN [ok |-> TRUE, observers |-> buf[1]]
    ELSE [ok |-> FALSE, observers |-> 0]

\* the payloads of crafted messages: a well-formed event that is illegal on
\* the client path, and an unknown variant
RawPayloads == { Encode(UpdateStats(5, 6)), <<9>> }

(***************************************************************************)
(* The broker's stats registry (Stats / ClientStats).                      *)
(***************************************************************************)
DefaultStats ==
    [corpus_size |-> 0, objective_size |-> 0, executions |-> 0, last_update_time |-> 0]

\* Stats::client_stats_mut_for: the record of a sender, created on first use
client_stats_mut_for(st, sender_id) ==
    IF sender_id \in DOMAIN st THEN st
    ELSE [i \in DOMAIN st \cup {sender_id} |->
            IF i = sender_id THEN DefaultStats ELSE st[i]]

update_corpus_size(st, sender_id, corpus_size) ==
    [st EXCEPT ![sender_id].corpus_size = corpus_size]

update_executions(st, sender_id, executions, time) ==
    [st EXCEPT ![sender_id].executions = executions,
               ![sender_id].last_update_time = time]

update_objective_size(st, sender_id, objective_size) ==
    [st EXCEPT ![sender_id].objective_size = objective_size]

(***************************************************************************)
(* LlmpEventManager::handle_in_broker (llmp.rs:230-278), one operator per  *)
(* match arm.                                                              *)
(***************************************************************************)
\* Event::NewTestcase (llmp.rs:236-249)
hib_NewTestcase(st, sender_id, event) ==
    LET client == client_stats_mut_for(st, sender_id)
        c1 == update_corpus_size(client, sender_id, event.corpus_size)
        c2 == update_executions(c1, sender_id, event.executions, event.time)
    IN  [ok |-> TRUE, result |-> "Forward", stats |-> c2]

\* a variant of the UpdateStats arm that also overwrites corpus_size
hib_UpdateStats_TouchesCorpus(st, sender_id, event) ==
    LET client == client_stats_mut_for(st, sender_id)
        c1 == update_executions(client, sender_id, event.executions, event.time)
        c2 == update_corpus_size(c1, sender_id, event.executions)
    IN  [ok |-> TRUE, result |-> "Handled", stats |-> c2]

\* Event::UpdateStats (llmp.rs:250-260)
hib_UpdateStats(st, sender_id, event) ==
    LET client == client_stats_mut_for(st, sender_id)
        c1 == update_executions(client, sender_id, event.executions, event.time)
    IN  [ok |-> TRUE, result |-> "Handled", stats |-> c1]

\* a variant of the Objective arm that records nothing for an unknown sender
hib_Objective_NoEntry(st, sender_id, event) ==
    IF sender_id \in DOMAIN st
    THEN [ok |-> TRUE, result |-> "Handled",
          stats |-> update_objective_size(st, sender_id, event.objective_size)]
    ELSE [ok |-> TRUE, result |-> "Handled", stats |-> st]

\* a variant of the Objective arm that forwards the event
hib_Objective_Forwards(st, sender_id, event) ==
    LET client == client_stats_mut_for(st, sender_id)
        c1 == update_objective_size(client, sender_id, event.objective_size)
    IN  [ok |-> TRUE, result |-> "Forward", stats |-> c1]

\* Event::Objective (llmp.rs:261-266)
hib_Objective(st, sender_id, event) ==
    LET client == client_stats_mut_for(st, sender_id)
        c1 == update_objective_size(client, sender_id, event.objective_size)
    IN  [ok |-> TRUE, result |-> "Handled", stats |-> c1]

\* Event::Log (llmp.rs:267-276)
hib_Log(st, sender_id, event) ==
    [ok |-> TRUE, result |-> "Handled", stats |-> st]

handle_in_broker(st, sender_id, event) ==
    CASE event.kind = "NewTestcase" -> hib_NewTestcase(st, sender_id, event)
      [] event.kind = "UpdateStats" -> hib_UpdateStats(st, sender_id, event)
      [] event.kind = "Objective" -> hib_Objective(st, sender_id, event)
      [] event.kind = "Log" -> hib_Log(st, sender_id, event)

(***************************************************************************)
(* The hook broker_loop hands to loop_forever (llmp.rs:204-216).           *)
(* decoded: postcard::from_bytes was called on the message;                *)
(* hib: the result of handle_in_broker, "None" when it was not called.     *)
(***************************************************************************)
\* a variant of the hook's tag test that also inspects EVENT_TO_BROKER
hook_inspects_ToBrokerToo(tag) ==
    tag \in {LLMP_TAG_EVENT_TO_BOTH, _LLMP_TAG_EVENT_TO_BROKER}

\* the tag test of the hook (llmp.rs:205)
hook_inspects(tag) == tag = LLMP_TAG_EVENT_TO_BOTH

broker_hook(st, sender_id, tag, msg) ==
    IF hook_inspects(tag)
    THEN LET d == Decode(msg) IN
         IF ~d.ok
         THEN [res |-> "Err", decoded |-> TRUE, event |-> NoEvent,
               hib |-> "None", stats |-> st]
         ELSE LET h == handle_in_broker(st, sender_id, d.event) IN
              IF ~h.ok
              THEN [res |-> "Err", decoded |-> TRUE, event |-> d.event,
                    hib |-> "Err", stats |-> h.stats]
              ELSE [res |-> IF h.result = "Forward" THEN "ForwardToClients"
                                                    ELSE "Handled",
                    decoded |-> TRUE, event |-> d.event,
                    hib |-> h.result, stats |-> h.stats]
    ELSE [res |-> "ForwardToClients", decoded |-> FALSE, event |-> NoEvent,
          hib |-> "None", stats |-> st]

(***************************************************************************)
(* LlmpEventManager::handle_in_client (llmp.rs:282-327).                   *)
(* o is what the local state answers: is_interesting returns Err or        *)
(* o.fitness, add_if_interesting returns Err, None or Some(id).            *)
(* The result counts the calls made on the state.                          *)
(***************************************************************************)
Outcomes ==
    { [ii_ok |-> FALSE, fitness |-> 0, add |-> "None"] }
    \cup { [ii_ok |-> TRUE, fitness |-> 0, add |-> "None"] }
    \cup [ii_ok : {TRUE}, fitness : FitnessValues \ {0}, add : {"Some", "None", "Err"}]

\* a variant of the fitness test that adopts a testcase of fitness 0 too
adopts_AnyFitness(fitness) == fitness >= 0

\* the fitness test guarding add_if_interesting (llmp.rs:312)
adopts(fitness) == fitness > 0

handle_in_client(sender_id, event, o) ==
    IF event.kind = "NewTestcase"
    THEN LET observers == DecodeObservers(event.observers_buf) IN
         IF ~observers.ok
         THEN [ok |-> FALSE, kind |-> event.kind, obs_ok |-> FALSE, ii |-> 0,
               exit_kind |-> 0, got_fitness |-> FALSE, fitness |-> 0,
               add |-> 0, added |-> 0]
         ELSE IF ~o.ii_ok
         THEN [ok |-> FALSE, kind |-> event.kind, obs_ok |-> TRUE, ii |-> 1,
               exit_kind |-> ExitKindOk, got_fitness |-> FALSE, fitness |-> 0,
               add |-> 0, added |-> 0]
         ELSE IF adopts(o.fitness)
         THEN [ok |-> o.add # "Err", kind |-> event.kind, obs_ok |-> TRUE, ii |-> 1,
               exit_kind |-> ExitKindOk, got_fitness |-> TRUE, fitness |-> o.fitness,
               add |-> 1, added |-> IF o.add = "Some" THEN 1 ELSE 0]
         ELSE [ok |-> TRUE, kind |-> event.kind, obs_ok |-> TRUE, ii |-> 1,
               exit_kind |-> ExitKindOk, got_fitness |-> TRUE, fitness |-> o.fitness,
               add |-> 0, added |-> 0]
    ELSE [ok |-> FALSE, kind |-> event.kind, obs_ok |-> FALSE, ii |-> 0,
          exit_kind |-> 0, got_fitness |-> FALSE, fitness |-> 0,
          add |-> 0, added |-> 0]

(***************************************************************************)
(* LlmpEventManager::process (llmp.rs:346-379).                            *)
(***************************************************************************)
\* a variant of the tag test that rejects EVENT_TO_CLIENT instead
must_not_arrive_ToClient(tag) == tag = _LLMP_TAG_EVENT_TO_CLIENT

\* the tag test of the receive loop (llmp.rs:362)
must_not_arrive(tag) == tag = _LLMP_TAG_EVENT_TO_BROKER

\* a variant of the receive loop that puts each event in front of the batch
RECURSIVE recv_loop_PushFront(_, _, _, _)
recv_loop_PushFront(q, n, events, decodes) ==
    IF n = Len(q)
    THEN [status |-> "Done", consumed |-> n, events |-> events, decodes |-> decodes]
    ELSE LET m == q[n + 1] IN
         IF must_not_arrive(m.tag)
         THEN [status |-> "Panic", consumed |-> n + 1, events |-> events,
               decodes |-> decodes]
         ELSE LET d == Decode(m.buf) IN
              IF ~d.ok
              THEN [status |-> "Err", consumed |-> n + 1, events |-> events,
                    decodes |-> decodes + 1]
              ELSE recv_loop_PushFront(q, n + 1,
                        <<[sender_id |-> m.sender, event |-> d.event]>> \o events,
                        decodes + 1)

\* the receive loop (llmp.rs:361-367) over the messages q available to recv_buf;
\* n messages are consumed so far, decodes counts the from_bytes calls
RECURSIVE recv_loop(_, _, _, _)
recv_loop(q, n, events, decodes) ==
    IF n = Len(q)
    THEN [status |-> "Done", consumed |-> n, events |-> events, decodes |-> decodes]
    ELSE LET m == q[n + 1] IN
         IF must_not_arrive(m.tag)
         THEN [status |-> "Panic", consumed |-> n + 1, events |-> events,
               decodes |-> decodes]
         ELSE LET d == Decode(m.buf) IN
              IF ~d.ok
              THEN [status |-> "Err", consumed |-> n + 1, events |-> events,
                    decodes |-> decodes + 1]
              ELSE recv_loop(q, n + 1,
                             Append(events, [sender_id |-> m.sender, event |-> d.event]),
                             decodes + 1)

\* events.drain(..).try_for_each(handle_in_client) (llmp.rs:375-377):
\* stops at the first error; answers[j] is what the state answers to the
\* j-th event that reaches is_interesting
NoAnswer == [ii_ok |-> FALSE, fitness |-> 0, add |-> "None"]

RECURSIVE dispatch(_, _, _, _, _)
dispatch(events, i, answers, j, calls) ==
    IF i > Len(events) THEN [ok |-> TRUE, calls |-> calls]
    ELSE LET o == IF j <= Len(answers) THEN answers[j] ELSE NoAnswer
             \* the call: its arguments and what it did
             r == handle_in_client(events[i].sender_id, events[i].event, o)
                  @@ [sender_id |-> events[i].sender_id, event |-> events[i].event]
         IN  IF r.ok THEN dispatch(events, i + 1, answers, j + r.ii, Append(calls, r))
             ELSE [ok |-> FALSE, calls |-> Append(calls, r)]

\* the whole call on a client whose receive queue holds q
process_client(q, answers) ==
    LET r == recv_loop(q, 0, <<>>, 0) IN
    IF r.status = "Panic"
    THEN [status |-> "Panic", count |-> 0, consumed |-> r.consumed,
          decodes |-> r.decodes, calls |-> <<>>]
    ELSE IF r.status = "Err"
    THEN [status |-> "Err", count |-> 0, consumed |-> r.consumed,
          decodes |-> r.decodes, calls |-> <<>>]
    ELSE LET count == Len(r.events)
             d == dispatch(r.events, 1, answers, 1, <<>>)
         IN  [status |-> IF d.ok THEN "Ok" ELSE "Err",
              count |-> IF d.ok THEN count ELSE 0,
              consumed |-> r.consumed, decodes |-> r.decodes, calls |-> d.calls]

\* an upper bound on the number of is_interesting calls process makes on q
RECURSIVE NumAsked(_)
NumAsked(q) ==
    IF q = <<>> THEN 0
    ELSE LET d == Decode(Head(q).buf) IN
         (IF d.ok /\ d.event.kind = "NewTestcase"
             /\ DecodeObservers(d.event.observers_buf).ok THEN 1 ELSE 0)
         + NumAsked(Tail(q))

RECURSIVE SumAdded(_)
SumAdded(calls) ==
    IF calls = <<>> THEN 0 ELSE Head(calls).added + SumAdded(Tail(calls))

(***************************************************************************)
(* Construction of managers (llmp.rs:131-180).                             *)
(***************************************************************************)
\* LlmpConnection::on_port: broker when the port was not yet bound
on_port(bound) == IF bound THEN "IsClient" ELSE "IsBroker"

new_on_port(bound) ==
    [stats |-> "Some", llmp |-> on_port(bound), origin |-> "port"]

\* a variant of existing_client_from_env that attaches as a broker
existing_client_from_env_AsBroker ==
    [stats |-> "None", llmp |-> "IsBroker", origin |-> "env"]

\* LlmpEventManager::existing_client_from_env (llmp.rs:145-158) builds
\* LlmpConnection::IsClient itself
existing_client_from_env ==
    [stats |-> "None", llmp |-> "IsClient", origin |-> "env"]

\* LlmpConnection::existing_client_from_description yields a client connection
existing_client_from_description ==
    [stats |-> "None", llmp |-> "IsClient", origin |-> "description"]

is_broker(m) == m.llmp = "IsBroker"

(***************************************************************************)
(* State.                                                                  *)
(*   mgr      the event manager of every process                           *)
(*   role0    per manager, is_broker() right after its construction        *)
(*   stats    the stats registry owned by the broker manager               *)
(*   out      per client, the send ring towards the broker                 *)
(*   bcast    the broker's broadcast ring, read by every client            *)
(*   recvPos  per client, the number of broadcast messages received        *)
(*   pc       per process, "running" or "aborted" (after a panic)          *)
(*   corpus   per client, the number of entries of the local corpus        *)
(*   env      the client endpoints exported to environment variables       *)
(*   page     per manager, the snapshot page its restarting wrapper writes *)
(*   sent     the number of messages published so far                      *)
(*   last     the last operation performed and what it observed            *)
(*   sup      the processes of setup_restarting_mgr                        *)
(*   sched    a QueueScheduler and the corpus of its state                 *)
(***************************************************************************)
(***************************************************************************)
(* The processes that call setup_restarting_mgr (llmp.rs:519-634): the one *)
(* that finds the port unbound, the supervisor of a worker, and the worker *)
(* process the supervisor spawns, one generation after the other.          *)
(***************************************************************************)
\* generations one supervisor spawns in one behaviour
MaxGen == 3

\* the supervisor is the process of the first client endpoint, the worker
\* process owns the other
Supervisor == CHOOSE c \in Clients : \A d \in Clients : c <= d
WorkerProc == CHOOSE c \in Clients : c # Supervisor

\* Option<S>
None == <<>>
Some(state) == <<state>>

\* what one generation did with on_restart
NoSnapshot == [called |-> FALSE, arg |-> None, desc |-> None]

SupInit ==
    [ pos |-> [m \in Mgrs |-> IF m = WorkerProc THEN "none" ELSE "start"],
      sender_env |-> [m \in Mgrs |-> FALSE],
      platform |-> "any",
      ctr |-> 0,
      alive |-> 0,
      status |-> "none",
      state |-> None,
      had_msg |-> FALSE,
      desc |-> None,
      gen |-> NoSnapshot,
      prev |-> NoSnapshot ]

(***************************************************************************)
(* QueueScheduler (schedulers/queue.rs) and the corpus it walks.           *)
(***************************************************************************)
\* entries a corpus holds at most
MaxCorpus == 4
\* calls of next in one behaviour
MaxCalls == 8

\* QueueScheduler::new (queue.rs:72-82) over a corpus without entries and
\* without a current entry; ids are the CorpusIds in corpus order, k counts
\* the successful calls of next, n0 is the size of the corpus at the first
\* of them, res is what the last call returned
SchedInit ==
    [ queue_cycles |-> 0,
      runs_in_current_cycle |-> 0,
      ids |-> <<>>,
      current |-> None,
      k |-> 0,
      n0 |-> 0,
      res |-> "none" ]

VARIABLES mgr, role0, stats, out, bcast, recvPos, pc, corpus, env, page, sent, last, sup,
          sched

vars == <<mgr, role0, stats, out, bcast, recvPos, pc, corpus, env, page, sent, last, sup, sched>>

Init ==
    /\ mgr = [m \in Mgrs |-> new_on_port(m # BrokerId)]
    /\ role0 = [m \in Mgrs |-> is_broker(mgr[m])]
    /\ stats = <<>>
    /\ out = [c \in Clients |-> <<>>]
    /\ bcast = <<>>
    /\ recvPos = [c \in Clients |-> 0]
    /\ pc = [m \in Mgrs |-> "running"]
    /\ corpus = [c \in Clients |-> 0]
    /\ env = {}
    /\ page = [m \in Mgrs |-> <<>>]
    /\ sent = 0
    /\ last = [op |-> "none"]
    /\ sup = SupInit
    /\ sched = SchedInit

\* LlmpConnection::send_buf: a client writes to its send ring, the broker to
\* the broadcast ring
send_buf(m, tag, buf) ==
    IF is_broker(mgr[m])
    THEN /\ bcast' = Append(bcast, [sender |-> m, tag |-> tag, buf |-> buf])
         /\ out' = out
    ELSE /\ out' = [out EXCEPT ![m] = Append(@, [sender |-> m, tag |-> tag, buf |-> buf])]
         /\ bcast' = bcast

\* a variant of fire that publishes for the broker only
fire_tag_ToBroker == _LLMP_TAG_EVENT_TO_BROKER

\* the tag fire publishes with (llmp.rs:383)
fire_tag == LLMP_TAG_EVENT_TO_BOTH

\* LlmpEventManager::fire (llmp.rs:381-385)
fire(m, event, via) ==
    /\ pc[m] = "running"
    /\ sent < MaxSend
    /\ LET serialized == Encode(event) IN send_buf(m, fire_tag, serialized)
    /\ sent' = sent + 1
    /\ last' = [op |-> "fire", mgr |-> m, via |-> via]
    /\ UNCHANGED <<mgr, role0, stats, recvPos, pc, corpus, env, page, sup, sched>>

Fire(m, event) == fire(m, event, "LlmpEventManager")

\* LlmpRestartingEventManager::fire (llmp.rs:476-479) delegates to llmp_mgr
RestartingFire(m, event) == fire(m, event, "LlmpRestartingEventManager")

\* another user of a client's LLMP connection publishes a crafted message
RawSend(c, tag, buf) ==
    /\ pc[c] = "running"
    /\ sent < MaxSend
    /\ send_buf(c, tag, buf)
    /\ sent' = sent + 1
    /\ last' = [op |-> "send_buf", mgr |-> c]
    /\ UNCHANGED <<mgr, role0, stats, recvPos, pc, corpus, env, page, sup, sched>>

\* what loop_forever does with the hook's answer: ForwardToClients copies the
\* message to the broadcast ring, Handled and a per-message error drop it
forward(res, msg) == IF res = "ForwardToClients" THEN Append(bcast, msg) ELSE bcast

\* LlmpEventManager::broker_loop (llmp.rs:199-226) on the broker, one message
\* of client s
BrokerLoop(s) ==
    /\ is_broker(mgr[BrokerId])
    /\ pc[BrokerId] = "running"
    /\ out[s] # <<>>
    /\ LET msg == Head(out[s])
           h == broker_hook(stats, msg.sender, msg.tag, msg.buf)
       IN  /\ stats' = h.stats
           /\ bcast' = forward(h.res, msg)
           /\ last' = [op |-> "hook", mgr |-> BrokerId, sender |-> msg.sender,
                       tag |-> msg.tag, buf |-> msg.buf, res |-> h.res,
                       decoded |-> h.decoded, event |-> h.event, hib |-> h.hib]
    /\ out' = [out EXCEPT ![s] = Tail(@)]
    /\ UNCHANGED <<mgr, role0, recvPos, pc, corpus, env, page, sent, sup, sched>>

\* a variant of broker_loop that dispatches on a client too before it fails
BrokerLoopInClient_Dispatches(c) ==
    /\ pc[c] = "running"
    /\ ~is_broker(mgr[c])
    /\ out[c] # <<>>
    /\ LET msg == Head(out[c])
           h == broker_hook(stats, msg.sender, msg.tag, msg.buf)
       IN  /\ stats' = h.stats
           /\ bcast' = forward(h.res, msg)
    /\ out' = [out EXCEPT ![c] = Tail(@)]
    /\ last' = [op |-> "broker_loop", mgr |-> c, res |-> "IllegalState"]
    /\ UNCHANGED <<mgr, role0, recvPos, pc, corpus, env, page, sent, sup, sched>>

\* LlmpEventManager::broker_loop on a client (llmp.rs:222-224)
BrokerLoopInClient(c) ==
    /\ pc[c] = "running"
    /\ ~is_broker(mgr[c])
    /\ last' = [op |-> "broker_loop", mgr |-> c, res |-> "IllegalState"]
    /\ UNCHANGED <<mgr, role0, stats, out, bcast, recvPos, pc, corpus, env, page, sent, sup, sched>>

\* LlmpEventManager::process (llmp.rs:346-379) on a client
Process(c) ==
    /\ pc[c] = "running"
    /\ ~is_broker(mgr[c])
    /\ LET q == SubSeq(bcast, recvPos[c] + 1, Len(bcast)) IN
       \E answers \in [1..NumAsked(q) -> Outcomes] :
          LET p == process_client(q, answers) IN
          /\ recvPos' = [recvPos EXCEPT ![c] = @ + p.consumed]
          /\ pc' = [pc EXCEPT ![c] = IF p.status = "Panic" THEN "aborted" ELSE @]
          /\ corpus' = [corpus EXCEPT ![c] = @ + SumAdded(p.calls)]
          /\ last' = [op |-> "process", mgr |-> c, status |-> p.status,
                      count |-> p.count,
                      consumed |-> SubSeq(q, 1, p.consumed),
                      decodes |-> p.decodes, calls |-> p.calls]
    /\ UNCHANGED <<mgr, role0, stats, out, bcast, env, page, sent, sup, sched>>

\* LlmpEventManager::process on the broker: nothing is received (llmp.rs:369-372)
ProcessInBroker(m) ==
    /\ pc[m] = "running"
    /\ is_broker(mgr[m])
    /\ last' = [op |-> "process", mgr |-> m, status |-> "Ok", count |-> 0,
                consumed |-> <<>>, decodes |-> 0, calls |-> <<>>]
    /\ UNCHANGED <<mgr, role0, stats, out, bcast, recvPos, pc, corpus, env, page, sent, sup, sched>>

\* the broker side of the bus: every manager fires every event, crafted
\* messages carry every tag, the broker dispatches
Next ==
    \/ \E m \in Mgrs, e \in Events : Fire(m, e)
    \/ \E m \in Mgrs, e \in Events : RestartingFire(m, e)
    \/ \E c \in Clients, t \in Tags, b \in RawPayloads : RawSend(c, t, b)
    \/ \E s \in Clients : BrokerLoop(s)

Spec == Init /\ [][Next]_vars

\* the client side of the bus: testcases and crafted messages reach the
\* clients through the broker, the clients process them
TestcaseEvents == { e \in Events : e.kind = "NewTestcase" }
ClientPathTags == { _LLMP_TAG_EVENT_TO_CLIENT, _LLMP_TAG_EVENT_TO_BROKER }
\* the client that publishes; every client receives
Publishers == {1}

NextClient ==
    \/ \E c \in Publishers, e \in TestcaseEvents : Fire(c, e)
    \/ \E c \in Publishers, t \in ClientPathTags, b \in RawPayloads : RawSend(c, t, b)
    \/ \E s \in Clients : BrokerLoop(s)
    \/ \E c \in Clients : Process(c)
    \/ \E m \in Mgrs : ProcessInBroker(m)

SpecClient == Init /\ [][NextClient]_vars

\* the bus when fire is its only source of messages: every manager fires every
\* event, the broker dispatches, the clients process
NextFire ==
    \/ \E m \in Mgrs, e \in Events : Fire(m, e)
    \/ \E s \in Clients : BrokerLoop(s)
    \/ \E c \in Clients : Process(c)

SpecFire == Init /\ [][NextFire]_vars

(***************************************************************************)
(* The life of a manager: describing, exporting, snapshotting and          *)
(* rebuilding it.                                                          *)
(***************************************************************************)
\* the fuzzer states a worker snapshots
States == {7, 8}

\* LlmpConnection::describe: the description of a client endpoint; a broker
\* cannot be described
describe(m) ==
    IF is_broker(mgr[m]) THEN [ok |-> FALSE, description |-> 0]
    ELSE [ok |-> TRUE, description |-> m]

\* LlmpEventManager::describe (llmp.rs:160-163)
Describe(m) ==
    /\ pc[m] = "running"
    /\ last' = [op |-> "describe", mgr |-> m, ok |-> describe(m).ok]
    /\ UNCHANGED <<mgr, role0, stats, out, bcast, recvPos, pc, corpus, env, page, sent, sup, sched>>

\* LlmpEventManager::to_env (llmp.rs:183-191): todo!() panics on a broker
ToEnv(m) ==
    /\ pc[m] = "running"
    /\ IF is_broker(mgr[m])
       THEN /\ pc' = [pc EXCEPT ![m] = "aborted"]
            /\ env' = env
       ELSE /\ env' = env \cup {describe(m).description}
            /\ pc' = pc
    /\ last' = [op |-> "to_env", mgr |-> m]
    /\ UNCHANGED <<mgr, role0, stats, out, bcast, recvPos, corpus, page, sent, sup, sched>>

\* LlmpClient::await_save_to_unmap_blocking returns once the broker has
\* mapped what the client sent
safe_to_unmap(c) == out[c] = <<>>

\* a variant of await_restart_safe that never waits
await_restart_safe_NoWait(m) == TRUE

\* LlmpEventManager::await_restart_safe (llmp.rs:339-344) can return: only a
\* client waits
await_restart_safe(m) == IF is_broker(mgr[m]) THEN TRUE ELSE safe_to_unmap(m)

\* LlmpEventManager::await_restart_safe (llmp.rs:339-344) returning
AwaitRestartSafe(m) ==
    /\ pc[m] = "running"
    /\ await_restart_safe(m)
    /\ last' = [op |-> "await_restart_safe", mgr |-> m]
    /\ UNCHANGED <<mgr, role0, stats, out, bcast, recvPos, pc, corpus, env, page, sent, sup, sched>>

\* Drop for LlmpEventManager (llmp.rs:107-118): drop returns, and the pages
\* of the manager are released, once await_restart_safe has returned
Drop(m) ==
    /\ pc[m] = "running"
    /\ await_restart_safe(m)
    /\ pc' = [pc EXCEPT ![m] = "released"]
    /\ last' = [op |-> "drop", mgr |-> m, waited |-> ~is_broker(mgr[m])]
    /\ UNCHANGED <<mgr, role0, stats, out, bcast, recvPos, corpus, env, page, sent, sup, sched>>

\* the fuzzer states postcard::to_allocvec cannot serialize
Unserializable == {9}

\* a variant of serialize_state_mgr that stores a fixed state
serialize_state_mgr_FixedState(state, m) ==
    LET d == describe(m) IN
    IF d.ok /\ state \notin Unserializable THEN [ok |-> TRUE, buf |-> <<CHOOSE st \in States : \A o \in States : st <= o,
                                         d.description>>]
    ELSE [ok |-> FALSE, buf |-> <<>>]

\* serialize_state_mgr (llmp.rs:391-402): describe()? comes first, then
\* postcard::to_allocvec(..)? on the pair
serialize_state_mgr(state, m) ==
    LET d == describe(m) IN
    IF d.ok /\ state \notin Unserializable
    THEN [ok |-> TRUE, buf |-> <<state, d.description>>]
    ELSE [ok |-> FALSE, buf |-> <<>>]

\* LlmpSender::reset: the page is empty again, its write cursor at offset 0
reset(pg) == <<>>

\* volatile read of size_used on a page: 0 exactly when it holds no message
size_used(pg) == Len(pg)

\* a variant of on_restart that writes behind what the page holds
on_restart_NoReset(pg, state, m) ==
    LET s == serialize_state_mgr(state, m) IN
    [ok |-> s.ok,
     page |-> IF s.ok THEN Append(pg, [tag |-> _LLMP_TAG_RESTART, buf |-> s.buf])
              ELSE pg]

\* a variant of on_restart that resets the page only once the state is
\* serialized
on_restart_ResetAfterSerialize(pg, state, m) ==
    LET s == serialize_state_mgr(state, m)
    IN  [ok |-> s.ok,
         page |-> IF s.ok
                  THEN Append(reset(pg), [tag |-> _LLMP_TAG_RESTART, buf |-> s.buf])
                  ELSE pg]

\* LlmpRestartingEventManager::on_restart (llmp.rs:454-460) on the snapshot
\* page pg: the page it leaves behind
on_restart(pg, state, m) ==
    LET r == reset(pg)
        s == serialize_state_mgr(state, m)
    IN  [ok |-> s.ok,
         page |-> IF s.ok THEN Append(r, [tag |-> _LLMP_TAG_RESTART, buf |-> s.buf])
                  ELSE r]

\* LlmpRestartingEventManager::on_restart (llmp.rs:454-460)
OnRestart(m, state) ==
    /\ pc[m] = "running"
    /\ LET r == on_restart(page[m], state, m)
       IN  /\ page' = [page EXCEPT ![m] = r.page]
           /\ last' = [op |-> "on_restart", mgr |-> m, ok |-> r.ok]
    /\ UNCHANGED <<mgr, role0, stats, out, bcast, recvPos, pc, corpus, env, sent, sup, sched>>

\* LlmpEventManager::existing_client_from_env (llmp.rs:145-158): a new
\* process reattaches to the exported endpoint c
ExistingClientFromEnv(c) ==
    /\ c \in env
    /\ mgr' = [mgr EXCEPT ![c] = existing_client_from_env]
    /\ role0' = [role0 EXCEPT ![c] = is_broker(mgr'[c])]
    /\ pc' = [pc EXCEPT ![c] = "running"]
    /\ last' = [op |-> "existing_client_from_env", mgr |-> c]
    /\ UNCHANGED <<stats, out, bcast, recvPos, corpus, env, page, sent, sup, sched>>

\* deserialize_state_mgr (llmp.rs:406-421): the tuple in the buffer
deserialize_state_mgr(buf) ==
    IF Len(buf) = 2 THEN [ok |-> TRUE, state |-> buf[1], description |-> buf[2]]
    ELSE [ok |-> FALSE, state |-> 0, description |-> 0]

\* deserialize_state_mgr (llmp.rs:406-421) on the snapshot of manager c: a new
\* process rebuilds the manager from the description in the snapshot
DeserializeStateMgr(c) ==
    /\ page[c] # <<>>
    /\ LET tuple == deserialize_state_mgr(page[c][1].buf)
           d == tuple.description
       IN  /\ tuple.ok
           /\ mgr' = [mgr EXCEPT ![d] = existing_client_from_description]
           /\ role0' = [role0 EXCEPT ![d] = is_broker(mgr'[d])]
           /\ pc' = [pc EXCEPT ![d] = "running"]
           /\ last' = [op |-> "deserialize_state_mgr", mgr |-> d, state |-> tuple.state]
    /\ UNCHANGED <<stats, out, bcast, recvPos, corpus, env, page, sent, sup, sched>>

\* the life of the broker's manager and of one worker's manager
LifeEvents == { NewTestcase(2, GoodObservers, 3, 4) }
Workers == {1}
LifeMgrs == Brokers \cup Workers

NextLife ==
    \/ \E m \in Workers, e \in LifeEvents : Fire(m, e)
    \/ \E s \in Workers : BrokerLoop(s)
    \/ \E c \in Workers : BrokerLoopInClient(c)
    \/ \E c \in Workers : Process(c)
    \/ \E m \in Brokers : ProcessInBroker(m)
    \/ \E m \in LifeMgrs : Describe(m)
    \/ \E m \in LifeMgrs : ToEnv(m)
    \/ \E m \in LifeMgrs : AwaitRestartSafe(m)
    \/ \E m \in LifeMgrs : Drop(m)
    \/ \E m \in LifeMgrs, st \in States \cup Unserializable : OnRestart(m, st)
    \/ \E c \in Workers : ExistingClientFromEnv(c)
    \/ \E c \in Workers : DeserializeStateMgr(c)

SpecLife == Init /\ [][NextLife]_vars

(***************************************************************************)
(* setup_restarting_mgr (llmp.rs:519-634), one step per stretch of code    *)
(* between the points where the process can be stopped or has to wait.     *)
(***************************************************************************)
\* the two builds of the respawn loop: fork (llmp.rs:571-575) and a new
\* execution of the same binary (llmp.rs:578-579)
Platforms == {"unix", "windows"}
ExitStatuses == {"ok", "crash"}

\* the port is bound while the process that became broker on it lives
port_bound == sup.pos[BrokerId] \in {"start", "broker_loop"}

\* the branch setup_restarting_mgr takes after new_on_port (llmp.rs:540-541,
\* 588): the role is tested only when _ENV_FUZZER_SENDER is not set
setup_branch(sender_set, broker) ==
    IF ~sender_set
    THEN IF broker THEN "broker" ELSE "supervisor"
    ELSE "worker"

\* llmp.rs:540-563 and 588-596: the process p, its manager built by
\* new_on_port, enters broker_loop, becomes the supervisor (exports its
\* endpoint, creates and exports the snapshot channel) or attaches to the
\* snapshot channel as the worker
SetupStart(p) ==
    /\ sup.pos[p] = "start"
    /\ LET b == setup_branch(sup.sender_env[p], is_broker(mgr[p])) IN
       \/ /\ b = "broker"
          /\ sup' = [sup EXCEPT !.pos[p] = "broker_loop"]
          /\ UNCHANGED <<env, page>>
       \/ /\ b = "supervisor"
          /\ \E pf \in Platforms :
                sup' = [sup EXCEPT !.pos[p] = "spawn", !.ctr = 0, !.platform = pf]
          /\ env' = env \cup {describe(p).description}
          /\ page' = [page EXCEPT ![p] = <<>>]
       \/ /\ b = "worker"
          /\ sup' = [sup EXCEPT !.pos[p] = "recv"]
          /\ UNCHANGED <<env, page>>
    /\ last' = [op |-> "setup_start", mgr |-> p]
    /\ UNCHANGED <<mgr, role0, stats, out, bcast, recvPos, pc, corpus, sent, sched>>

\* loop_forever comes back and setup_restarting_mgr returns
\* Err(Error::ShuttingDown) (llmp.rs:544-545)
BrokerLoopReturns(p) ==
    /\ sup.pos[p] = "broker_loop"
    /\ sup' = [sup EXCEPT !.pos[p] = "ShuttingDown"]
    /\ last' = [op |-> "broker_loop_returns", mgr |-> p, res |-> "ShuttingDown"]
    /\ UNCHANGED <<mgr, role0, stats, out, bcast, recvPos, pc, corpus, env, page, sent, sched>>

\* llmp.rs:567-579: the supervisor spawns the next worker, or fork fails; a
\* forked child leaves the loop with the parent's manager and endpoints, a
\* newly executed child starts setup_restarting_mgr from its beginning
Spawn ==
    /\ sup.pos[Supervisor] = "spawn"
    /\ sup.ctr < MaxGen
    /\ \/ /\ sup' = [sup EXCEPT !.pos[Supervisor] = "Err"]
          /\ UNCHANGED <<mgr, role0>>
       \/ /\ sup' = [sup EXCEPT !.pos[Supervisor] = "wait",
                                !.pos[WorkerProc] =
                                    IF sup.platform = "unix" THEN "recv" ELSE "new",
                                !.sender_env[WorkerProc] = TRUE,
                                !.alive = @ + 1,
                                !.status = "none",
                                !.prev = sup.gen,
                                !.gen = NoSnapshot]
          /\ IF sup.platform = "unix"
             THEN /\ mgr' = [mgr EXCEPT ![WorkerProc] = mgr[Supervisor]]
                  /\ role0' = [role0 EXCEPT ![WorkerProc] = role0[Supervisor]]
             ELSE UNCHANGED <<mgr, role0>>
    /\ last' = [op |-> "spawn", mgr |-> Supervisor]
    /\ UNCHANGED <<stats, out, bcast, recvPos, pc, corpus, env, page, sent, sched>>

\* llmp.rs:533-537 in a newly executed worker process
WorkerNewOnPort ==
    /\ sup.pos[WorkerProc] = "new"
    /\ mgr' = [mgr EXCEPT ![WorkerProc] = new_on_port(port_bound)]
    /\ role0' = [role0 EXCEPT ![WorkerProc] = is_broker(mgr'[WorkerProc])]
    /\ sup' = [sup EXCEPT !.pos[WorkerProc] = "start"]
    /\ last' = [op |-> "new_on_port", mgr |-> WorkerProc]
    /\ UNCHANGED <<stats, out, bcast, recvPos, pc, corpus, env, page, sent, sched>>

\* llmp.rs:605-624: the worker receives from the snapshot channel and builds
\* its manager, from the exported endpoint or from the snapshot
WorkerRecv ==
    /\ sup.pos[WorkerProc] = "recv"
    /\ IF page[Supervisor] = <<>>
       THEN /\ Supervisor \in env
            /\ mgr' = [mgr EXCEPT ![Supervisor] = existing_client_from_env]
            /\ role0' = [role0 EXCEPT ![Supervisor] = is_broker(mgr'[Supervisor])]
            /\ sup' = [sup EXCEPT !.pos[WorkerProc] = "built", !.state = None,
                                  !.had_msg = FALSE, !.desc = None]
       ELSE LET tuple == deserialize_state_mgr(page[Supervisor][1].buf) IN
            /\ tuple.ok
            /\ mgr' = [mgr EXCEPT ![tuple.description] = existing_client_from_description]
            /\ role0' = [role0 EXCEPT ![tuple.description] =
                                          is_broker(mgr'[tuple.description])]
            /\ sup' = [sup EXCEPT !.pos[WorkerProc] = "built",
                                  !.state = Some(tuple.state),
                                  !.had_msg = TRUE,
                                  !.desc = Some(tuple.description)]
    /\ last' = [op |-> "recv_buf", mgr |-> WorkerProc]
    /\ UNCHANGED <<stats, out, bcast, recvPos, pc, corpus, env, page, sent, sched>>

\* a variant of the end of setup_restarting_mgr that leaves the page as it is
WorkerReset_NoReset ==
    /\ sup.pos[WorkerProc] = "built"
    /\ sup' = [sup EXCEPT !.pos[WorkerProc] = "returned"]
    /\ last' = [op |-> "setup_return", mgr |-> Supervisor, state |-> sup.state,
                had_msg |-> sup.had_msg, desc |-> sup.desc]
    /\ UNCHANGED <<mgr, role0, stats, out, bcast, recvPos, pc, corpus, env, page, sent, sched>>

\* llmp.rs:625-633: the sender is reset and setup_restarting_mgr returns
\* Ok((state, mgr))
WorkerReset ==
    /\ sup.pos[WorkerProc] = "built"
    /\ page' = [page EXCEPT ![Supervisor] = reset(@)]
    /\ sup' = [sup EXCEPT !.pos[WorkerProc] = "returned"]
    /\ last' = [op |-> "setup_return", mgr |-> Supervisor, state |-> sup.state,
                had_msg |-> sup.had_msg, desc |-> sup.desc]
    /\ UNCHANGED <<mgr, role0, stats, out, bcast, recvPos, pc, corpus, env, sent, sched>>

\* the worker, fuzzing with the manager it got, calls on_restart
\* (llmp.rs:454-460)
WorkerOnRestart(state) ==
    /\ sup.pos[WorkerProc] = "returned"
    /\ LET r == on_restart(page[Supervisor], state, Supervisor) IN
       /\ page' = [page EXCEPT ![Supervisor] = r.page]
       /\ sup' = [sup EXCEPT !.gen = [called |-> TRUE,
                                      arg |-> IF r.ok THEN Some(state) ELSE None,
                                      desc |-> IF r.ok
                                               THEN Some(describe(Supervisor).description)
                                               ELSE None]]
       /\ last' = [op |-> "on_restart", mgr |-> Supervisor, ok |-> r.ok,
                   state |-> state, again |-> sup.gen.called, before |-> page[Supervisor]]
    /\ UNCHANGED <<mgr, role0, stats, out, bcast, recvPos, pc, corpus, env, sent, sched>>

\* the worker process ends, wherever it is, with whatever status
WorkerExit ==
    /\ sup.pos[WorkerProc] \in {"new", "start", "recv", "built", "returned"}
    /\ \E st \in ExitStatuses :
          sup' = [sup EXCEPT !.pos[WorkerProc] = "dead", !.alive = @ - 1,
                             !.status = st]
    /\ last' = [op |-> "exit", mgr |-> WorkerProc, at |-> sup.pos[WorkerProc]]
    /\ UNCHANGED <<mgr, role0, stats, out, bcast, recvPos, pc, corpus, env, page, sent, sched>>

\* a variant of the respawn loop that does not wait for the child
child_terminated_NoWait == TRUE

\* handle.status() and startable_self()?.status() return (llmp.rs:573, 579)
\* when the child has terminated
child_terminated == sup.alive = 0

\* a variant of the check that respawns whatever the page holds
after_child_NoCheck(used) == "spawn"

\* llmp.rs:581-586: panic on an empty snapshot page, else go round the loop
after_child(used) == IF used = 0 THEN "panic" ELSE "spawn"

\* llmp.rs:573-586: the child has terminated, its status is dropped, the
\* supervisor reads size_used; ctr is a u64 whose wrapping_add does not wrap
\* within MaxGen generations
SupCheck ==
    /\ sup.pos[Supervisor] = "wait"
    /\ child_terminated
    /\ LET used == size_used(page[Supervisor])
           to == after_child(used)
       IN  /\ sup' = [sup EXCEPT !.pos[Supervisor] = to,
                                 !.ctr = IF to = "spawn" THEN @ + 1 ELSE @]
           /\ last' = [op |-> "check", mgr |-> Supervisor, alive |-> sup.alive,
                       size_used |-> used, status |-> sup.status,
                       called |-> sup.gen.called]
    /\ UNCHANGED <<mgr, role0, stats, out, bcast, recvPos, pc, corpus, env, page, sent, sched>>

\* the processes around one supervisor: the broker in broker_loop, the
\* supervisor, and the worker fuzzing between setup and exit
NextSup ==
    \/ \E p \in Mgrs : SetupStart(p)
    \/ \E s \in Workers : sup.pos[BrokerId] = "broker_loop" /\ BrokerLoop(s)
    \/ BrokerLoopReturns(BrokerId)
    \/ Spawn
    \/ WorkerNewOnPort
    \/ WorkerRecv
    \/ WorkerReset
    \/ \E st \in States \cup Unserializable : WorkerOnRestart(st)
    \/ \E e \in LifeEvents : sup.pos[WorkerProc] = "returned" /\ RestartingFire(Supervisor, e)
    \/ WorkerExit
    \/ SupCheck

SpecSup == Init /\ [][NextSup]_vars

(***************************************************************************)
(* QueueScheduler::next (queue.rs:47-69) on the corpus of the state.       *)
(***************************************************************************)
\* Corpus::count
count(ids) == Len(ids)

\* Corpus::first: the first entry in corpus order
first(ids) == IF ids = <<>> THEN None ELSE Some(ids[1])

\* Corpus::next: the entry that follows id in corpus order, None behind the
\* last one
next(ids, id) ==
    LET i == CHOOSE j \in DOMAIN ids : ids[j] = id
    IN  IF i < Len(ids) THEN Some(ids[i + 1]) ELSE None

\* a variant of the choice of next that starts over at the first entry
\* whatever the current entry is
next_id_FirstAlways(ids, current) == first(ids)[1]

\* the id next picks (queue.rs:54-59):
\* current().map(|id| next(id)).flatten().unwrap_or_else(|| first().unwrap())
next_id(ids, current) ==
    LET following == IF current = None THEN None ELSE next(ids, current[1])
    IN  IF following # None THEN following[1] ELSE first(ids)[1]

\* the counters of one run (queue.rs:61-65); the u64 additions do not
\* overflow within MaxCalls calls
count_run(s, n) ==
    LET r == [s EXCEPT !.runs_in_current_cycle = @ + 1]
    IN  IF r.runs_in_current_cycle >= n
        THEN [r EXCEPT !.queue_cycles = @ + 1]
        ELSE r

\* HasQueueCycles::queue_cycles (queue.rs:94-96)
queue_cycles(s) == s.queue_cycles

\* Scheduler::set_current_scheduled: the corpus's current entry
set_current_scheduled(s, id) == [s EXCEPT !.current = id]

\* Corpus::add: a testcase enters the corpus behind the others and gets the
\* next CorpusId
CorpusAdd ==
    /\ count(sched.ids) < MaxCorpus
    /\ sched' = [sched EXCEPT !.ids = Append(@, Len(@)), !.res = "none"]
    /\ last' = [op |-> "add"]
    /\ UNCHANGED <<mgr, role0, stats, out, bcast, recvPos, pc, corpus, env, page, sent, sup>>

\* QueueScheduler::next (queue.rs:47-69)
SchedNext ==
    /\ sched.k < MaxCalls
    /\ IF count(sched.ids) = 0
       THEN sched' = [sched EXCEPT !.res = "Empty"]
       ELSE LET id == next_id(sched.ids, sched.current)
                c == count_run(sched, count(sched.ids))
                d == set_current_scheduled(c, Some(id))
            IN  sched' = [d EXCEPT !.res = Some(id), !.k = @ + 1,
                                   !.n0 = IF sched.k = 0 THEN count(sched.ids) ELSE @]
    /\ last' = [op |-> "next"]
    /\ UNCHANGED <<mgr, role0, stats, out, bcast, recvPos, pc, corpus, env, page, sent, sup>>

\* a fuzzer that adds testcases to its corpus and asks the scheduler for the
\* next one
NextQueue ==
    \/ CorpusAdd
    \/ SchedNext

SpecQueue == Init /\ [][NextQueue]_vars

(***************************************************************************)
(* Properties of the broker side, checked under Spec.                      *)
(***************************************************************************)
\* the broker takes the head message of client s's ring in this step
HookStep(s) == out[s] # <<>> /\ out'[s] = Tail(out[s])

\* C1: whenever the hook passed an event to handle_in_broker, the result is
\* fixed by the variant alone: Forward for NewTestcase, Handled for
\* UpdateStats, Objective and Log, and never an error.
C1_BrokerClassification ==
    (last.op = "hook" /\ last.hib # "None") =>
        /\ last.event.kind \in {"NewTestcase", "UpdateStats", "Objective", "Log"}
        /\ last.hib = IF last.event.kind = "NewTestcase" THEN "Forward" ELSE "Handled"

\* an Objective was absorbed by the broker
C1_Witness ==
    /\ last.op = "hook"
    /\ last.hib = "Handled"
    /\ last.event.kind = "Objective"

RecordOf(st, s) == IF s \in DOMAIN st THEN st[s] ELSE DefaultStats

\* C3: handle_in_broker for an event of sender s leaves the record of every
\* other sender as it was and creates no record but that of s; NewTestcase
\* sets s's corpus_size, executions and last update time to the event's
\* values, UpdateStats only executions and last update time, Objective only
\* objective_size, and Log changes no stats at all.
C3_BrokerFrame ==
    [][\A s \in Clients : (HookStep(s) /\ last'.hib # "None") =>
        LET e == last'.event
            old == RecordOf(stats, s)
        IN  /\ \A o \in DOMAIN stats \ {s} : o \in DOMAIN stats' /\ stats'[o] = stats[o]
            /\ DOMAIN stats' \subseteq DOMAIN stats \cup {s}
            /\ e.kind = "NewTestcase" =>
                  stats'[s] = [old EXCEPT !.corpus_size = e.corpus_size,
                                          !.executions = e.executions,
                                          !.last_update_time = e.time]
            /\ e.kind = "UpdateStats" =>
                  stats'[s] = [old EXCEPT !.executions = e.executions,
                                          !.last_update_time = e.time]
            /\ e.kind = "Objective" =>
                  stats'[s] = [old EXCEPT !.objective_size = e.objective_size]
            /\ e.kind = "Log" => stats' = stats]_vars

\* an UpdateStats of one sender was recorded while another sender has a record
C3_Witness ==
    /\ last.op = "hook"
    /\ last.hib = "Handled"
    /\ last.event.kind = "UpdateStats"
    /\ DOMAIN stats = Clients
    /\ stats[last.sender].executions = last.event.executions
    /\ \E o \in Clients \ {last.sender} : stats[o] # DefaultStats

\* C5: every fire, on LlmpEventManager and on LlmpRestartingEventManager,
\* publishes exactly one message, tagged EVENT_TO_BOTH, at the end of the
\* firing manager's ring, and changes no other ring.
C5_FireTag ==
    [][(last'.op = "fire" /\ sent' = sent + 1) =>
        LET m == last'.mgr IN
        IF is_broker(mgr[m])
        THEN /\ out' = out
             /\ Len(bcast') = Len(bcast) + 1
             /\ SubSeq(bcast', 1, Len(bcast)) = bcast
             /\ bcast'[Len(bcast')].tag = LLMP_TAG_EVENT_TO_BOTH
        ELSE /\ bcast' = bcast
             /\ \A c \in Clients \ {m} : out'[c] = out[c]
             /\ Len(out'[m]) = Len(out[m]) + 1
             /\ SubSeq(out'[m], 1, Len(out[m])) = out[m]
             /\ out'[m][Len(out'[m])].tag = LLMP_TAG_EVENT_TO_BOTH]_vars

\* a restarting manager of a client has fired and the message is on its ring
C5_Witness ==
    /\ last.op = "fire"
    /\ last.via = "LlmpRestartingEventManager"
    /\ ~is_broker(mgr[last.mgr])
    /\ out[last.mgr] # <<>>
    /\ out[last.mgr][Len(out[last.mgr])].tag = LLMP_TAG_EVENT_TO_BOTH

(***************************************************************************)
(* Properties of the client side, checked under SpecClient.                *)
(***************************************************************************)
\* the last operation was process on a client
ClientProcessed == last.op = "process" /\ ~is_broker(mgr[last.mgr])

\* the messages still unread by the client that processed last
Unread == SubSeq(bcast, recvPos[last.mgr] + 1, Len(bcast))

\* the messages that were available to the last process call
Available == last.consumed \o Unread

\* C4 as stated: for every NewTestcase handled by handle_in_client,
\* is_interesting is called exactly once with ExitKind::Ok, and
\* add_if_interesting exactly once when the fitness is > 0, never when it is 0.
C4_AsStated ==
    ClientProcessed =>
        \A i \in DOMAIN last.calls :
            LET r == last.calls[i] IN
            r.kind = "NewTestcase" =>
                /\ r.ii = 1
                /\ r.exit_kind = ExitKindOk
                /\ r.add = IF r.got_fitness /\ r.fitness > 0 THEN 1 ELSE 0
                /\ r.added <= 1

\* C4 amended: for every NewTestcase handled by handle_in_client whose
\* observers_buf decodes, is_interesting is called exactly once with
\* ExitKind::Ok; add_if_interesting is called exactly once when is_interesting
\* returned a fitness > 0 and not at all when it returned 0 or failed; the
\* corpus grows by at most one entry, and only through that call. When
\* observers_buf does not decode the handler fails before either is called.
C4_ClientAdoption ==
    ClientProcessed =>
        \A i \in DOMAIN last.calls :
            LET r == last.calls[i] IN
            r.kind = "NewTestcase" =>
                IF r.obs_ok
                THEN /\ r.ii = 1
                     /\ r.exit_kind = ExitKindOk
                     /\ r.add = IF r.got_fitness /\ r.fitness > 0 THEN 1 ELSE 0
                     /\ r.added <= r.add
                ELSE /\ ~r.ok
                     /\ r.ii = 0
                     /\ r.add = 0
                     /\ r.added = 0

\* a testcase of fitness > 0 was adopted, and one of fitness 0 was not
C4_Witness ==
    /\ ClientProcessed
    /\ \E i \in DOMAIN last.calls :
          /\ last.calls[i].got_fitness
          /\ last.calls[i].fitness > 0
          /\ last.calls[i].added = 1
    /\ \E i \in DOMAIN last.calls :
          /\ last.calls[i].got_fitness
          /\ last.calls[i].fitness = 0
          /\ last.calls[i].add = 0

\* C6: a process call on a client (no message of the batch being tagged
\* EVENT_TO_BROKER, and no call into the state failing) leaves its receive
\* queue empty, dispatches each consumed message to handle_in_client exactly
\* once and returns the number of messages it consumed.
C6_ProcessDrains ==
    ( /\ ClientProcessed
      /\ \A i \in DOMAIN Available : ~must_not_arrive(Available[i].tag)
      /\ \A i \in DOMAIN last.calls :
            last.calls[i].kind = "NewTestcase" => last.calls[i].ok )
    => /\ Unread = <<>>
       /\ Len(last.calls) = Len(last.consumed)
       /\ last.status = "Ok"
       /\ last.count = Len(last.consumed)

\* C7: when the batch a client's process receives holds an event that is not
\* a NewTestcase, every event of the batch is still dispatched to
\* handle_in_client (the batch here is fully received: every payload
\* decodes and no message is tagged EVENT_TO_BROKER).
C7_IllegalEventNonFatal ==
    ( /\ ClientProcessed
      /\ \A i \in DOMAIN Available :
            /\ ~must_not_arrive(Available[i].tag)
            /\ Decode(Available[i].buf).ok
      /\ \E i \in DOMAIN last.calls : last.calls[i].kind # "NewTestcase" )
    => Len(last.calls) = Len(Available)

\* C8: when exactly one of the messages available to a client's process
\* fails to decode (and none is tagged EVENT_TO_BROKER), all of them are
\* consumed and those consumed before it are dispatched.
C8_MalformedSkipped ==
    ( /\ ClientProcessed
      /\ \A i \in DOMAIN Available : ~must_not_arrive(Available[i].tag)
      /\ Cardinality({i \in DOMAIN Available : ~Decode(Available[i].buf).ok}) = 1 )
    => /\ Unread = <<>>
       /\ \A i \in DOMAIN Available :
             (i > 1 /\ ~Decode(Available[i].buf).ok) => last.calls # <<>>

\* C9: a message tagged EVENT_TO_BROKER that a client's process receives
\* aborts the client at that message: it is the last one received, it is
\* not decoded (only the messages before it were), and the call dispatches
\* nothing to handle_in_client.
C9_ToBrokerAborts ==
    ClientProcessed =>
        \A i \in DOMAIN last.consumed :
            last.consumed[i].tag = _LLMP_TAG_EVENT_TO_BROKER =>
                /\ last.status = "Panic"
                /\ pc[last.mgr] = "aborted"
                /\ i = Len(last.consumed)
                /\ last.decodes = i - 1
                /\ last.calls = <<>>

\* the forbidden tag arrived behind a well-formed message
C9_Witness ==
    /\ ClientProcessed
    /\ last.status = "Panic"
    /\ Len(last.consumed) = 2
    /\ last.consumed[2].tag = _LLMP_TAG_EVENT_TO_BROKER
    /\ last.decodes = 1

(***************************************************************************)
(* Properties of the life of a manager, checked under SpecLife.            *)
(***************************************************************************)
\* C10: is_broker() of every manager is what it was right after its
\* construction, whatever was called on it since, and a manager built by
\* existing_client_from_env or existing_client_from_description is a client.
C10_RoleImmutable ==
    \A m \in Mgrs :
        /\ is_broker(mgr[m]) = role0[m]
        /\ mgr[m].origin \in {"env", "description"} => ~is_broker(mgr[m])

\* a manager rebuilt from the environment has been used and is a client
C10_Witness ==
    /\ last.op \in {"fire", "process", "on_restart", "to_env", "broker_loop"}
    /\ mgr[last.mgr].origin = "env"
    /\ ~is_broker(mgr[last.mgr])
    /\ is_broker(mgr[BrokerId])

\* C11: broker_loop called on a client returns the IllegalState error at
\* once: the call receives, decodes, forwards and sends nothing and leaves
\* the stats, every ring and every manager as they were.
C11_BrokerLoopOnClient ==
    [][(last'.op = "broker_loop" /\ ~is_broker(mgr[last'.mgr])) =>
        /\ last'.res = "IllegalState"
        /\ UNCHANGED <<mgr, role0, stats, out, bcast, recvPos, pc, corpus,
                       env, page, sent, sup, sched>>]_vars

\* broker_loop was called on a client whose ring holds an undispatched message
C11_Witness ==
    /\ last.op = "broker_loop"
    /\ ~is_broker(mgr[last.mgr])
    /\ last.res = "IllegalState"
    /\ out[last.mgr] # <<>>
    /\ stats = <<>>

\* C12: a client manager whose drop has completed (its pages are released)
\* has no page the broker has not yet taken over, because drop runs
\* await_restart_safe first; the drop of a broker manager does not wait.
C12_DropSafety ==
    /\ \A m \in Mgrs :
          (pc[m] = "released" /\ ~is_broker(mgr[m])) => safe_to_unmap(m)
    /\ last.op = "drop" => (last.waited <=> ~is_broker(mgr[last.mgr]))

\* a client that had sent was dropped after the broker took its message over
C12_Witness ==
    /\ last.op = "drop"
    /\ ~is_broker(mgr[last.mgr])
    /\ last.waited
    /\ pc[last.mgr] = "released"
    /\ sent > 0
    /\ bcast # <<>>

(***************************************************************************)
(* Properties of setup_restarting_mgr, checked under SpecSup.              *)
(***************************************************************************)
\* C13: when the worker of one generation called on_restart (successfully,
\* once or more) and exited, the worker of the next generation gets from
\* setup_restarting_mgr Some(state) with the state of the last of those
\* calls and a client manager rebuilt from the endpoint description the
\* earlier manager gave at that call.
C13_RestartRoundTrip ==
    (last.op = "setup_return" /\ sup.prev.called /\ sup.prev.arg # None) =>
        /\ last.state = sup.prev.arg
        /\ last.desc = sup.prev.desc
        /\ mgr[last.desc[1]].origin = "description"
        /\ ~is_broker(mgr[last.desc[1]])

\* the second of two states snapshot in one generation came back in the next
C13_Witness ==
    /\ last.op = "setup_return"
    /\ sup.ctr > 0
    /\ sup.prev.called
    /\ \E st \in States : (\E o \in States : o < st) /\ last.state = Some(st)
    /\ last.state = sup.prev.arg

\* C14: whenever the supervisor checks the snapshot page after a worker that
\* never called on_restart in its generation, wherever that worker stopped,
\* it reads size_used == 0 and aborts.
C14_SnapshotDetection ==
    (last.op = "check" /\ ~last.called) =>
        /\ last.size_used = 0
        /\ sup.pos[Supervisor] = "panic"

\* C15: every snapshot page holds at most one message, tagged RESTART, and
\* after an on_restart that succeeded it holds exactly the message of that
\* call, whatever the page held before.
C15_OneSnapshot ==
    /\ \A m \in Mgrs :
          /\ size_used(page[m]) <= 1
          /\ \A i \in DOMAIN page[m] : page[m][i].tag = _LLMP_TAG_RESTART
    /\ (last.op = "on_restart" /\ last.ok) =>
          /\ size_used(page[last.mgr]) = 1
          /\ deserialize_state_mgr(page[last.mgr][1].buf).state = last.state

\* a second on_restart of one generation replaced the snapshot of the first
C15_Witness ==
    /\ last.op = "on_restart"
    /\ last.ok
    /\ last.again
    /\ last.before # <<>>
    /\ deserialize_state_mgr(last.before[1].buf).state # last.state
    /\ size_used(page[last.mgr]) = 1

\* where a process is while it runs the respawn loop or the worker branch
InLoopOrWorker == {"spawn", "wait", "panic", "Err", "recv", "built", "returned"}

\* C16: a process of setup_restarting_mgr whose new_on_port manager has the
\* broker role is never in the respawn loop nor in the worker branch.
C16_BrokerBranch ==
    \A p \in Mgrs : is_broker(mgr[p]) => sup.pos[p] \notin InLoopOrWorker

\* C17: when the worker branch of setup_restarting_mgr returns, the state is
\* None exactly when recv_buf found the snapshot channel empty, which
\* happens in the first generation only, and the manager is then the one
\* reattached from the exported endpoint; the state is Some(state) exactly
\* when the channel held a message, and the manager is then rebuilt from the
\* description in it. Either way the manager is a client and the snapshot
\* page is empty.
C17_WorkerBranch ==
    last.op = "setup_return" =>
        /\ (last.state = None) <=> ~last.had_msg
        /\ ~last.had_msg =>
              /\ mgr[last.mgr].origin = "env"
              /\ sup.ctr = 0
        /\ last.had_msg =>
              /\ mgr[last.mgr].origin = "description"
              /\ last.desc = Some(last.mgr)
        /\ ~is_broker(mgr[last.mgr])
        /\ size_used(page[Supervisor]) = 0

\* a later generation returned with the state of a snapshot and an empty page
C17_Witness ==
    /\ last.op = "setup_return"
    /\ last.had_msg
    /\ last.state \in {Some(st) : st \in States}
    /\ sup.ctr > 0
    /\ page[Supervisor] = <<>>

\* C18: when the supervisor comes back from waiting for a worker, it goes
\* round the loop to the next spawn exactly when the snapshot page holds a
\* snapshot, whatever the exit status, and panics otherwise; the supervisor
\* leaves the respawn loop only by that panic or by a failed spawn.
C18_Respawn ==
    [][/\ (sup.pos[Supervisor] = "wait" /\ sup'.pos[Supervisor] # "wait") =>
            /\ sup'.pos[Supervisor] =
                  IF page[Supervisor] # <<>> THEN "spawn" ELSE "panic"
            /\ sup'.pos[Supervisor] = "spawn" => sup'.ctr = sup.ctr + 1
       /\ sup.pos[Supervisor] \in {"spawn", "wait"} =>
            sup'.pos[Supervisor] \in {"spawn", "wait", "panic", "Err"}
       /\ sup.pos[Supervisor] \in {"panic", "Err"} =>
            sup'.pos[Supervisor] = sup.pos[Supervisor]]_vars

\* the supervisor is about to spawn again behind two workers that crashed
C18_Witness ==
    /\ last.op = "check"
    /\ last.status = "crash"
    /\ last.size_used > 0
    /\ sup.pos[Supervisor] = "spawn"
    /\ sup.ctr = 2

\* C19: at most one worker of the supervisor is alive at any time, and the
\* supervisor reads size_used on the snapshot page only when none is.
C19_OneWorker ==
    /\ sup.alive <= 1
    /\ last.op = "check" => last.alive = 0
    /\ sup.pos[WorkerProc] \in {"new", "start", "recv", "built", "returned"} =>
          (sup.alive = 1 /\ sup.pos[Supervisor] = "wait")

\* the supervisor read the page a worker had written, after that worker ended
C19_Witness ==
    /\ last.op = "check"
    /\ last.alive = 0
    /\ last.called
    /\ last.size_used > 0
    /\ sup.pos[WorkerProc] = "dead"

(***************************************************************************)
(* Properties of the broker's stats registry, checked under Spec.          *)
(***************************************************************************)
\* C20: no message the broker handles makes the executions or the
\* corpus_size recorded for a sender smaller than it was.
C20_StatsMonotone ==
    [][\A s \in DOMAIN stats :
          /\ s \in DOMAIN stats'
          /\ stats'[s].executions >= stats[s].executions
          /\ stats'[s].corpus_size >= stats[s].corpus_size]_vars

\* C21 as stated: once handle_in_broker has handled a message of a sender,
\* whatever its variant, the registry has an entry for that sender, and no
\* entry is ever removed.
C21_AsStated ==
    [][/\ \A s \in Clients :
             (HookStep(s) /\ last'.hib # "None") => s \in DOMAIN stats'
       /\ DOMAIN stats \subseteq DOMAIN stats']_vars

\* C21 amended: once handle_in_broker has handled a NewTestcase, UpdateStats
\* or Objective of a sender, the registry has an entry for that sender; a
\* Log event creates no entry; and no entry is ever removed.
C21_StatsEntry ==
    [][/\ \A s \in Clients :
             (HookStep(s) /\ last'.hib # "None") =>
                 IF last'.event.kind = "Log"
                 THEN DOMAIN stats' = DOMAIN stats
                 ELSE s \in DOMAIN stats'
       /\ DOMAIN stats \subseteq DOMAIN stats']_vars

\* the first message handled of a sender was an Objective and created its
\* entry, while the entry of another sender is still there
C21_Witness ==
    /\ last.op = "hook"
    /\ last.hib = "Handled"
    /\ last.event.kind = "Objective"
    /\ DOMAIN stats = Clients
    /\ stats[last.sender] =
          [DefaultStats EXCEPT !.objective_size = last.event.objective_size]

(***************************************************************************)
(* Order of the messages of one sender, checked under SpecClient.          *)
(***************************************************************************)
IsPrefix(a, b) == Len(a) <= Len(b) /\ SubSeq(b, 1, Len(a)) = a

\* the hook forwards msg to the clients
Forwarded(msg) ==
    broker_hook(stats, msg.sender, msg.tag, msg.buf).res = "ForwardToClients"

FromSender(q, s) == SelectSeq(q, LAMBDA msg : msg.sender = s)

\* the messages of sender s that reach the clients, in publish order: those
\* already broadcast, then those of its ring the broker will forward
Stream(s) ==
    FromSender(bcast, s) \o SelectSeq(out[s], Forwarded)

\* C22: the messages of one sender keep their publish order end to end: a
\* published message goes behind the sender's earlier ones, the broker
\* handles the oldest message of a ring first and broadcasts the forwarded
\* ones in that order, a client's process receives the broadcast messages
\* in their order and dispatches the events of the batch to
\* handle_in_client in the order in which it received them.
C22_PerSenderOrder ==
    [][/\ \A s \in Clients :
             /\ IsPrefix(Stream(s), Stream(s)')
             /\ Len(out'[s]) < Len(out[s]) =>
                   /\ out'[s] = Tail(out[s])
                   /\ last'.op = "hook"
                   /\ last'.sender = s
                   /\ last'.buf = Head(out[s]).buf
       /\ \A c \in Clients : recvPos'[c] # recvPos[c] =>
             /\ last'.op = "process"
             /\ last'.mgr = c
             /\ last'.consumed = SubSeq(bcast, recvPos[c] + 1, recvPos'[c])
             /\ Len(last'.calls) <= Len(last'.consumed)
             /\ \A i \in DOMAIN last'.calls :
                   /\ last'.calls[i].sender_id = last'.consumed[i].sender
                   /\ last'.calls[i].event = Decode(last'.consumed[i].buf).event]_vars

\* a client's process dispatched two different testcases of one sender, in
\* the order in which the sender fired them
C22_Witness ==
    /\ ClientProcessed
    /\ Len(last.calls) = 2
    /\ last.calls[1].sender_id = last.calls[2].sender_id
    /\ last.calls[1].event # last.calls[2].event
    /\ last.calls[1].event.kind = "NewTestcase"
    /\ last.calls[2].event.kind = "NewTestcase"
    /\ last.mgr # last.calls[1].sender_id

(***************************************************************************)
(* The bus fed by fire alone, checked under SpecFire.                      *)
(***************************************************************************)
\* C24: when every message on the bus comes from fire, every event a
\* client's process hands to handle_in_client is a NewTestcase: UpdateStats,
\* Objective and Log never reach handle_in_client.
C24_NoIllegalFromFire ==
    ClientProcessed =>
        \A i \in DOMAIN last.calls : last.calls[i].event.kind = "NewTestcase"

(***************************************************************************)
(* Failing snapshots, checked under SpecSup.                               *)
(***************************************************************************)
\* C25: an on_restart that returns an error leaves the snapshot page empty
\* (size_used = 0), whatever the page held before; one that succeeds leaves
\* exactly the new snapshot.
C25_NoStaleSnapshot ==
    last.op = "on_restart" =>
        IF last.ok
        THEN page[last.mgr] =
               <<[tag |-> _LLMP_TAG_RESTART,
                  buf |-> <<last.state, describe(last.mgr).description>>]>>
        ELSE size_used(page[last.mgr]) = 0

\* an on_restart failed on a page that held the snapshot of an earlier call
\* of the same generation
C25_Witness ==
    /\ last.op = "on_restart"
    /\ ~last.ok
    /\ last.again
    /\ size_used(last.before) = 1
    /\ size_used(page[last.mgr]) = 0

(***************************************************************************)
(* Properties of QueueScheduler, checked under SpecQueue.                  *)
(***************************************************************************)
\* the position of the current entry in the corpus, 0 when there is none
CurrentPos ==
    IF sched.current = None THEN 0
    ELSE CHOOSE j \in DOMAIN sched.ids : sched.ids[j] = sched.current[1]

\* C23: next on a corpus with entries returns the entry behind the current
\* one, or the first entry when there is no current entry or the current
\* one is the last, and makes it the current entry; on a corpus without
\* entries it returns the Empty error and leaves the counters and the
\* current entry as they were.
C23_QueueNext ==
    [][last'.op = "next" =>
        IF sched.ids = <<>>
        THEN /\ sched'.res = "Empty"
             /\ sched'.queue_cycles = sched.queue_cycles
             /\ sched'.runs_in_current_cycle = sched.runs_in_current_cycle
             /\ sched'.current = sched.current
             /\ sched'.ids = sched.ids
        ELSE LET expected == IF CurrentPos = 0 \/ CurrentPos = Len(sched.ids)
                             THEN sched.ids[1]
                             ELSE sched.ids[CurrentPos + 1]
             IN  /\ sched'.res = Some(expected)
                 /\ sched'.current = Some(expected)
                 /\ sched'.ids = sched.ids]_vars

\* the scheduler went through a corpus of three entries and is back at the
\* first one
C23_Witness ==
    /\ last.op = "next"
    /\ count(sched.ids) = 3
    /\ sched.n0 = 3
    /\ sched.k = 4
    /\ sched.res = first(sched.ids)
    /\ sched.current = first(sched.ids)

\* C26: with a corpus whose size n > 0 has not changed since the first call
\* of next on a new scheduler, queue_cycles() is floor(k / n) after k
\* successful calls.
C26_QueueCycles ==
    (sched.k > 0 /\ sched.n0 = count(sched.ids)) =>
        queue_cycles(sched) = sched.k \div sched.n0

====
